---- MODULE Spec2Model ----
(***************************************************************************)
(* Model of the bindings engine of builtins.mango (src/.mango/_common.py): *)
(* the .instructions parser, the recursive resolver getRegisteredItems and *)
(* the read / transform / write mutations wrapped by enactInstructionsList.*)
(*                                                                         *)
(* Text is modelled as it is in the program: a file is a sequence of       *)
(* characters, a line is the slice up to and including its "\n", and the   *)
(* Python string methods the code calls (strip, split, startswith, join)   *)
(* are operators over character sequences.  Script, command and submodule  *)
(* names are one character long to keep the state space small.             *)
(***************************************************************************)
EXTENDS Naturals, Sequences, FiniteSets, TLC

VARIABLES fs, last, steps, disk, procs

vars == <<fs, last, steps, disk, procs>>

(* ------------------------------------------------------------------ *)
(* Bounds                                                              *)
(* ------------------------------------------------------------------ *)

\* longest root bindings file (in lines) the resolver specification starts from
MaxLines == 2

\* number of mutating calls made in one behaviour of the mutation specification
MaxSteps == 2

(* ------------------------------------------------------------------ *)
(* Python string methods over character sequences                      *)
(* ------------------------------------------------------------------ *)

NL == "\n"

IsSpace(c) == c \in {" ", NL}

RECURSIVE lstrip(_)
lstrip(s) ==
    IF s = <<>> THEN <<>>
    ELSE IF IsSpace(Head(s)) THEN lstrip(Tail(s)) ELSE s

RECURSIVE rstrip(_)
rstrip(s) ==
    IF s = <<>> THEN <<>>
    ELSE IF IsSpace(s[Len(s)]) THEN rstrip(SubSeq(s, 1, Len(s) - 1)) ELSE s

\* str.strip()
strip(s) == rstrip(lstrip(s))

\* str.startswith(p)
startswith(s, p) == Len(p) <= Len(s) /\ SubSeq(s, 1, Len(p)) = p

\* str.endswith(p)
endswith(s, p) == Len(p) <= Len(s) /\ SubSeq(s, Len(s) - Len(p) + 1, Len(s)) = p

\* c in s, for one character c
contains(s, c) == \E i \in 1..Len(s) : s[i] = c

\* s.index(c), 1-based: the first position of c (c occurs in s)
index(s, c) == CHOOSE i \in 1..Len(s) : s[i] = c /\ \A j \in 1..(i - 1) : s[j] # c

\* s.split(sep): every field between occurrences of the character sep
RECURSIVE split(_, _)
split(s, sep) ==
    IF ~contains(s, sep) THEN <<s>>
    ELSE LET i == index(s, sep)
         IN  <<SubSeq(s, 1, i - 1)>> \o split(SubSeq(s, i + 1, Len(s)), sep)

\* s.split(sep, 1): at most one cut, at the first sep
split1(s, sep) ==
    IF ~contains(s, sep) THEN <<s>>
    ELSE LET i == index(s, sep)
         IN  <<SubSeq(s, 1, i - 1), SubSeq(s, i + 1, Len(s))>>

\* the first whitespace-free word of s (s does not start with whitespace)
RECURSIVE word(_)
word(s) ==
    IF s = <<>> \/ IsSpace(Head(s)) THEN <<>>
    ELSE <<Head(s)>> \o word(Tail(s))

\* s.split(): the words separated by runs of whitespace
RECURSIVE splitws(_)
splitws(s) ==
    LET t == lstrip(s)
    IN  IF t = <<>> THEN <<>>
        ELSE LET w == word(t)
             IN  <<w>> \o splitws(SubSeq(t, Len(w) + 1, Len(t)))

\* sep.join(parts)
RECURSIVE join(_, _)
join(sep, parts) ==
    IF parts = <<>> THEN <<>>
    ELSE IF Len(parts) = 1 THEN parts[1]
    ELSE parts[1] \o sep \o join(sep, Tail(parts))

\* file.readlines(): the lines of a text, each with its "\n" if it has one
RECURSIVE readlines(_)
readlines(text) ==
    IF text = <<>> THEN <<>>
    ELSE IF ~contains(text, NL) THEN <<text>>
    ELSE LET i == index(text, NL)
         IN  <<SubSeq(text, 1, i)>> \o readlines(SubSeq(text, i + 1, Len(text)))

\* file.writelines(lines): the lines one after the other, nothing added
RECURSIVE writelines(_)
writelines(lines) ==
    IF lines = <<>> THEN <<>> ELSE Head(lines) \o writelines(Tail(lines))

\* the elements of a list, as a set
ToSet(seq) == {seq[i] : i \in 1..Len(seq)}

(* ------------------------------------------------------------------ *)
(* Paths                                                               *)
(* ------------------------------------------------------------------ *)

\* A path is the sequence of its segments below the root repository;
\* os.path.join of relative segments is concatenation.
MangoDir == <<".mango">>
SubmodulesDir == <<".submodules">>
InstructionsFile == <<".instructions">>

\* the root repository
RootRepo == <<>>

instructions_path(mango_repo_path) == mango_repo_path \o <<MangoDir, InstructionsFile>>

submodule_repo_path(mango_repo_path, submodule_name) ==
    mango_repo_path \o <<MangoDir, SubmodulesDir, submodule_name>>

(* ------------------------------------------------------------------ *)
(* Parsing                                                             *)
(* ------------------------------------------------------------------ *)

\* Python's None, and a value v that is not None
None == <<>>
Some(v) == <<v>>

ScriptInfo(vpath, path, source, bindings) ==
    [virtual_submodule_path |-> vpath, within_submodule_path |-> path,
     source |-> source, bindings |-> bindings]

isBoundTo(script, binding) == binding \in ToSet(script.bindings)

parseInstructionEntry(line) ==
    LET stripped_line == strip(line)
        content == strip(split1(stripped_line, "#")[1])
        parts == split1(content, ":")
        prefix == strip(parts[1])
        is_source_entry == startswith(prefix, <<"*">>)
        script_name == strip(IF is_source_entry THEN Tail(prefix) ELSE prefix)
    IN  IF stripped_line = <<>> \/ startswith(stripped_line, <<"#">>) THEN None
        ELSE IF content = <<>> \/ startswith(content, <<"[">>) \/ ~contains(content, ":")
             THEN None
        ELSE IF script_name = <<>> THEN None
        ELSE Some([script_name |-> script_name, is_source_entry |-> is_source_entry,
                   bindings |-> splitws(strip(parts[2]))])

Ok(scripts) == [err |-> "none", scripts |-> scripts]
Raise(e) == [err |-> e, scripts |-> <<>>]

\* line 221: the chain handed to the recursive call (NestedStartFlat: the
\* variant that forgets the chain above the submodule)
NestedStartFlat(starting_submodule, submodule_name) == <<submodule_name>>
NestedStart(starting_submodule, submodule_name) == starting_submodule \o <<submodule_name>>

\* line 228: the entry a selective directive re-emits (ReExportKeepsNames:
\* the variant that carries the submodule's own command names through)
ReExportKeepsNames(script, remaining) == script
ReExport(script, remaining) ==
    ScriptInfo(script.virtual_submodule_path, script.within_submodule_path,
               script.source, <<remaining>>)

\* lines 223-228: what a directive keeps of the submodule's table
RECURSIVE ExportFilter(_, _)
ExportFilter(submodule_registry, remaining) ==
    IF submodule_registry = <<>> THEN <<>>
    ELSE (IF isBoundTo(Head(submodule_registry), remaining)
          THEN <<ReExport(Head(submodule_registry), remaining)>> ELSE <<>>)
         \o ExportFilter(Tail(submodule_registry), remaining)

\* lines 231-244: a script line (the line is stripped, no comment, no directive)
ScriptLineItem(line, starting_submodule) ==
    LET fields == split(line, ":")
        source_policy == startswith(line, <<"*">>)
        script_path == IF source_policy THEN Tail(fields[1]) ELSE fields[1]
    IN  IF Len(fields) < 2 THEN Raise("IndexError")
        ELSE Ok(<<ScriptInfo(starting_submodule, script_path, source_policy,
                             splitws(strip(fields[2])))>>)

\* lines 224, 228, 239: what a line yields goes after what the lines above
\* it yielded (Prepended: the variant that puts it in front)
Prepended(items, later) == later \o items
Appended(items, later) == items \o later

RECURSIVE getRegisteredItems(_, _, _)
RECURSIVE RegisteredLoop(_, _, _, _)

\* lines 205-244: the body of the loop, for one line of the file
LineItems(f, mango_repo_path, starting_submodule, raw) ==
    LET line == strip(raw)
    IN  IF startswith(line, <<"#">>) \/ line = <<>> THEN Ok(<<>>)
        ELSE IF startswith(line, <<"[">>)
        THEN IF ~contains(line, "]") THEN Ok(<<>>)
             ELSE LET close == index(line, "]")
                      submodule_name == SubSeq(line, 2, close - 1)
                      remaining == strip(SubSeq(line, close + 1, Len(line)))
                      submodule_registry ==
                          getRegisteredItems(f,
                              submodule_repo_path(mango_repo_path, submodule_name),
                              NestedStart(starting_submodule, submodule_name))
                  IN  IF submodule_registry.err # "none" THEN submodule_registry
                      ELSE IF remaining = <<"*">> THEN submodule_registry
                      ELSE Ok(ExportFilter(submodule_registry.scripts, remaining))
        ELSE ScriptLineItem(line, starting_submodule)

\* lines 204-245: the loop over the lines; an exception ends it
RegisteredLoop(f, mango_repo_path, starting_submodule, lines) ==
    IF lines = <<>> THEN Ok(<<>>)
    ELSE LET head == LineItems(f, mango_repo_path, starting_submodule, Head(lines))
         IN  IF head.err # "none" THEN head
             ELSE LET rest == RegisteredLoop(f, mango_repo_path, starting_submodule,
                                             Tail(lines))
                  IN  IF rest.err # "none" THEN rest
                      ELSE Ok(Appended(head.scripts, rest.scripts))

\* f is the file system: the texts of the .instructions files that exist
getRegisteredItems(f, mango_repo_path, starting_submodule) ==
    IF instructions_path(mango_repo_path) \notin DOMAIN f THEN Raise("FileNotFoundError")
    ELSE RegisteredLoop(f, mango_repo_path, starting_submodule,
                        readlines(f[instructions_path(mango_repo_path)]))

\* lines 257-263: the loop of getExportedSubmodules; str.index raises
\* ValueError when the line has no "]"
RECURSIVE ExportedLoop(_)
ExportedLoop(lines) ==
    IF lines = <<>> THEN [err |-> "none", names |-> <<>>]
    ELSE LET line == strip(Head(lines))
             rest == ExportedLoop(Tail(lines))
         IN  IF ~(startswith(line, <<"[">>) /\ endswith(line, <<"*">>)) THEN rest
             ELSE IF ~contains(line, "]") THEN [err |-> "ValueError", names |-> <<>>]
             ELSE IF rest.err # "none" THEN rest
             ELSE [err |-> "none",
                   names |-> <<SubSeq(line, 2, index(line, "]") - 1)>> \o rest.names]

\* lines 247-264
getExportedSubmodules(f, mango_repo_path) ==
    IF instructions_path(mango_repo_path) \notin DOMAIN f
    THEN [err |-> "FileNotFoundError", names |-> <<>>]
    ELSE ExportedLoop(readlines(f[instructions_path(mango_repo_path)]))

(* ------------------------------------------------------------------ *)
(* Mutations of the bindings file                                      *)
(* ------------------------------------------------------------------ *)

Done(lines) == [err |-> "none", why |-> "", lines |-> lines]
Fail(e, why, lines) == [err |-> e, why |-> why, lines |-> lines]

\* lines 646-647: the lines the wrapper reads and hands to the transformation
InstructionLines(f, mango_repo_path) == readlines(f[instructions_path(mango_repo_path)])

\* lines 646-653: read every line, transform, write every line back; result
\* is what the wrapped function made of InstructionLines.  An exception
\* raised by the transformation leaves before the file is opened for writing.
enactInstructionsList(f, mango_repo_path, result) ==
    LET path == instructions_path(mango_repo_path)
    IN  IF path \notin DOMAIN f
        THEN [err |-> "FileNotFoundError", why |-> "", fs |-> f]
        ELSE IF result.err # "none"
        THEN [err |-> result.err, why |-> result.why, fs |-> f]
        ELSE [err |-> "none", why |-> "",
              fs |-> [f EXCEPT ![path] = writelines(result.lines)]]

IsPreamble(line) == strip(line) = <<>> \/ startswith(strip(line), <<"#">>)

RECURSIVE PreambleLength(_)
PreambleLength(original) ==
    IF original = <<>> \/ ~IsPreamble(Head(original)) THEN 0
    ELSE 1 + PreambleLength(Tail(original))

appendToTop(original, to_add) ==
    LET insert_index == PreambleLength(original)
    IN  SubSeq(original, 1, insert_index) \o to_add
        \o SubSeq(original, insert_index + 1, Len(original))

\* lines 692-697
processLine(line, script_name, use_source) ==
    IF startswith(line, script_name \o <<":">>) /\ use_source
    THEN <<"*">> \o script_name \o <<":", " ">> \o split(line, ":")[2]
    ELSE IF startswith(line, <<"*">> \o script_name \o <<":">>) /\ ~use_source
    THEN script_name \o <<":", " ">> \o split(line, ":")[2]
    ELSE line

setSourcePolicy(script_name, use_source, lines) ==
    Done([i \in 1..Len(lines) |-> processLine(lines[i], script_name, use_source)])

bindToItem(submodule, item, bindings, lines) ==
    LET submodule_prefix ==
            IF submodule = None THEN <<>> ELSE <<"[">> \o submodule[1] \o <<"]", " ">>
        line == submodule_prefix \o item \o <<":", " ">> \o join(<<" ">>, bindings) \o <<NL>>
    IN  Done(appendToTop(lines, <<line>>))

exportSubmoduleBindings(submodule, lines) ==
    LET submodule_prefix == <<"[">> \o submodule \o <<"]">>
        line == submodule_prefix \o <<" ", "*", NL>>
    IN  Done(appendToTop(lines, <<line>>))

removeAllInstructionsFromSubmodule(submodule, lines) ==
    LET submodule_prefix == <<"[">> \o submodule \o <<"]">>
    IN  Done(SelectSeq(lines, LAMBDA raw_line : ~startswith(strip(raw_line), submodule_prefix)))

\* lines 785-790 and 833-835: does this line hold the entry of script_name
IsEntryOf(raw_line, script_name) ==
    LET parsed == parseInstructionEntry(raw_line)
    IN  parsed # None /\ parsed[1].script_name = script_name

\* lines 783-790: the first line holding an entry of script_name, 0 if none
TargetIndex(lines, script_name) ==
    IF \E i \in 1..Len(lines) : IsEntryOf(lines[i], script_name)
    THEN CHOOSE i \in 1..Len(lines) :
            /\ IsEntryOf(lines[i], script_name)
            /\ \A j \in 1..(i - 1) : ~IsEntryOf(lines[j], script_name)
    ELSE 0

\* line 800 (MissingIgnored: the variant that skips the membership check)
MissingIgnored(bindings_to_remove, existing_bindings) == {}
Missing(bindings_to_remove, existing_bindings) ==
    bindings_to_remove \ ToSet(existing_bindings)

\* lines 816-817 (RewrittenDirect: the variant that loses the '*' marker)
RewrittenDirect(is_source_entry, script_name, updated_bindings, line_ending) ==
    script_name \o <<":", " ">> \o join(<<" ">>, updated_bindings) \o line_ending
Rewritten(is_source_entry, script_name, updated_bindings, line_ending) ==
    (IF is_source_entry THEN <<"*">> ELSE <<>>)
    \o script_name \o <<":", " ">> \o join(<<" ">>, updated_bindings) \o line_ending

removeInstructionBindings(script_name, bindings_to_remove, remove_all, lines) ==
    LET target_index == TargetIndex(lines, script_name)
        target_entry == parseInstructionEntry(lines[target_index])[1]
        existing_bindings == target_entry.bindings
        updated_bindings ==
            IF remove_all THEN <<>>
            ELSE SelectSeq(existing_bindings, LAMBDA b : b \notin bindings_to_remove)
        original_line == lines[target_index]
        line_ending == IF endswith(original_line, <<NL>>) THEN <<NL>> ELSE <<>>
    IN  IF target_index = 0
        THEN IF remove_all THEN Done(lines)
             ELSE Fail("ValueError", "NotRegistered", lines)
        ELSE IF ~remove_all /\ Missing(bindings_to_remove, existing_bindings) # {}
        THEN Fail("ValueError", "UnknownBinding", lines)
        ELSE IF Len(updated_bindings) = 0
        THEN Done(SubSeq(lines, 1, target_index - 1)
                  \o SubSeq(lines, target_index + 1, Len(lines)))
        ELSE Done([lines EXCEPT ![target_index] =
                      Rewritten(target_entry.is_source_entry, script_name,
                                updated_bindings, line_ending)])

\* (deleteFirstEntryOnly: the variant that stops at the first match)
deleteFirstEntryOnly(script_name, lines) ==
    IF TargetIndex(lines, script_name) = 0 THEN Done(lines)
    ELSE Done(SubSeq(lines, 1, TargetIndex(lines, script_name) - 1)
              \o SubSeq(lines, TargetIndex(lines, script_name) + 1, Len(lines)))
deleteInstructionEntry(script_name, lines) ==
    Done(SelectSeq(lines, LAMBDA raw_line : ~IsEntryOf(raw_line, script_name)))

(* ------------------------------------------------------------------ *)
(* Mutations run by several processes                                  *)
(* ------------------------------------------------------------------ *)

\* line 650: the wrapped function a process runs on the lines it read
Apply(call, lines) ==
    IF call.op = "bindToItem"
    THEN bindToItem(call.submodule, call.script_name, call.bindings, lines)
    ELSE exportSubmoduleBindings(call.submodule[1], lines)

\* line 650: the lines the wrapped function is given are those the process
\* read at lines 646-647 (FreshLines: the variant that reads again under a
\* lock when it writes)
FreshLines(read_lines, current_lines) == current_lines
GivenLines(read_lines, current_lines) == read_lines

\* line 653: the bytes go to the start of the file that open(path, "w")
\* emptied; what another process wrote there since, beyond their length, stays
Overlay(text, bytes) == bytes \o SubSeq(text, Len(bytes) + 1, Len(text))

(* ------------------------------------------------------------------ *)
(* The disk: directories and files                                     *)
(* ------------------------------------------------------------------ *)

\* A disk maps each path that exists to "dir" or "file".

\* os.path.exists, os.path.isdir
exists(d, path) == path \in DOMAIN d
isdir(d, path) == path \in DOMAIN d /\ d[path] = "dir"

\* os.path.join(path, name) as the kernel walks it: the name cut at "/",
\* empty segments dropped
pathjoin(path, name) == path \o SelectSeq(split(name, "/"), LAMBDA seg : seg # <<>>)

\* path lies at or below top
Below(path, top) == Len(top) <= Len(path) /\ SubSeq(path, 1, Len(top)) = top

\* os.makedirs(path, exist_ok=True): the directories on the way to path
makedirs(d, path) ==
    [q \in DOMAIN d \cup {SubSeq(path, 1, k) : k \in 1..Len(path)} |->
        IF q \in DOMAIN d THEN d[q] ELSE "dir"]

\* os.listdir(path): the paths of the entries of a directory
listdir(d, path) == {q \in DOMAIN d : Len(q) = Len(path) + 1 /\ Below(q, path)}

\* shutil.rmtree / os.remove of each path of a set, with what lies below
RemoveTrees(d, tops) ==
    [q \in {p \in DOMAIN d : \A top \in tops : ~Below(p, top)} |-> d[q]]

\* line 121 (pathExists: the variant that asks only for the directory)
pathExists(d, path_str) == path_str = <<>> \/ exists(d, path_str)
isMangoRepo(d, path_str) == exists(d, path_str \o <<MangoDir>>)

(* ------------------------------------------------------------------ *)
(* Registry                                                            *)
(* ------------------------------------------------------------------ *)

\* lines 424-427; homeFolder() (lines 906-908) is one segment
HomeMango == << <<"~">>, MangoDir >>
getUserRegistryPath(item_type) ==
    IF item_type = "template" THEN HomeMango \o << <<".templates.registry">> >>
    ELSE HomeMango \o << <<".submodules.registry">> >>

\* the characters of \w: lower-case letters, digits and "_" (the inputs
\* use no others)
WordChars ==
    {"a", "b", "c", "d", "e", "f", "g", "h", "i", "j", "k", "l", "m", "n", "o", "p", "q",
     "r", "s", "t", "u", "v", "w", "x", "y", "z", "_",
     "0", "1", "2", "3", "4", "5", "6", "7", "8", "9"}

\* re.match(r'^[\w\-.]+$', s): one or more of \w, '-', '.', with "$" also
\* matching just before one final newline
IdentifierMatch(s) ==
    LET body == IF s # <<>> /\ s[Len(s)] = NL THEN SubSeq(s, 1, Len(s) - 1) ELSE s
    IN  /\ body # <<>>
        /\ \A i \in 1..Len(body) : body[i] \in WordChars \cup {"-", "."}

\* what one external program run leaves in the trace of a call
Event(call, target, ok) == [call |-> call, target |-> target, ok |-> ok]

\* lines 540-558: git clone --bare makes the destination with its config
\* and objects, or fails and leaves only the directories leading to it
gitCloneBare(d, url, dest_path, clone_ok) ==
    IF clone_ok
    THEN [err |-> "none",
          disk |-> (dest_path \o << <<"config">> >> :> "file")
                   @@ makedirs(d, dest_path \o << <<"objects">> >>)]
    ELSE [err |-> "GitOperationError",
          disk |-> makedirs(d, SubSeq(dest_path, 1, Len(dest_path) - 1))]

\* line 445 (SlotListed: the variant that asks for the slot's config, as
\* the lookup does)
SlotListed(d, item_path) == exists(d, item_path \o << <<"config">> >>)
SlotTaken(d, item_path) == exists(d, item_path)

\* lines 431-461
registerSubmodule(d, item_type, git, item_name, clone_ok) ==
    LET registry_path == getUserRegistryPath(item_type)
        item_path == pathjoin(registry_path, item_name)
        cloned == gitCloneBare(makedirs(d, registry_path), git, item_path, clone_ok)
    IN  IF SlotTaken(d, item_path)
        THEN [err |-> "ItemAlreadyExistsError", disk |-> d, events |-> <<>>, ret |-> None]
        ELSE [err |-> cloned.err, disk |-> cloned.disk,
              events |-> <<Event("git clone --bare", item_path, clone_ok)>>,
              ret |-> IF cloned.err = "none" THEN Some(item_path) ELSE None]

\* lines 868-894: the entries are removed one by one; kept are the entries
\* the loop did not remove because a removal failed, rmdir_ok tells whether
\* the final os.rmdir worked
removeFolderRecursively(d, folder_path, kept, rmdir_ok) ==
    IF ~exists(d, folder_path) THEN [err |-> "MangoRegistryError", disk |-> d]
    ELSE IF kept # {}
         THEN [err |-> "MangoRegistryError",
               disk |-> RemoveTrees(d, listdir(d, folder_path) \ kept)]
    ELSE IF ~rmdir_ok
         THEN [err |-> "OSError", disk |-> RemoveTrees(d, listdir(d, folder_path))]
    ELSE [err |-> "none", disk |-> RemoveTrees(d, {folder_path})]

\* lines 481-484 (Unwrapped: the variant that drops the failure)
Unwrapped(e) == "none"
Wrapped(e) == IF e = "none" THEN "none" ELSE "MangoRegistryError"

\* lines 463-484
unregisterSubmodule(d, item_name, item_type, kept, rmdir_ok) ==
    LET registry_path == getUserRegistryPath(item_type)
        item_path == pathjoin(registry_path, item_name)
        removed == removeFolderRecursively(d, item_path, kept, rmdir_ok)
    IN  IF ~exists(d, item_path)
        THEN [err |-> "ItemNotFoundError", disk |-> d, events |-> <<>>, ret |-> None]
        ELSE [err |-> Wrapped(removed.err), disk |-> removed.disk, events |-> <<>>,
              ret |-> None]

\* the prefixes of line 522
FilePrefix == <<"f", "i", "l", "e", ":", "/", "/">>
HttpPrefix == <<"h", "t", "t", "p", ":", "/", "/">>
HttpsPrefix == <<"h", "t", "t", "p", "s", ":", "/", "/">>
GitAtPrefix == <<"g", "i", "t", "@">>

\* lines 486-511: the entries of the directory that are directories holding
\* a config; os.listdir gives them in no fixed order, so they are a set
listRegisteredSubmodules(d, path) ==
    IF ~exists(d, path) THEN {}
    ELSE { [name |-> entry_path[Len(entry_path)],
            git |-> [url |-> FilePrefix, slot |-> Some(entry_path)],
            mode |-> "registered"] :
           entry_path \in {q \in listdir(d, path) :
                              isdir(d, q) /\ exists(d, q \o << <<"config">> >>)} }

\* lines 93-108: the source built from a local repository, its name checked
from_git_repo(local_path, type, rename) ==
    LET fields == split(local_path, "/")
        name == IF rename # None /\ rename[1] # <<>> THEN rename[1] ELSE fields[Len(fields)]
    IN  IF ~IdentifierMatch(name) THEN [err |-> "ValueError", ret |-> None]
        ELSE [err |-> "none",
              ret |-> Some([name |-> name, git |-> FilePrefix \o local_path,
                            mode |-> "registered", type |-> type])]

\* lines 530-535: the first registry of the list holding the name
RECURSIVE FirstHolding(_, _, _)
FirstHolding(d, submodule_like, registries) ==
    IF registries = <<>> THEN None
    ELSE IF exists(d, pathjoin(Head(registries), submodule_like) \o << <<"config">> >>)
         THEN Some(pathjoin(Head(registries), submodule_like))
         ELSE FirstHolding(d, submodule_like, Tail(registries))

\* lines 513-537; a found slot is returned as "file://" and its path
gitPathFromSubmodule(d, submodule_like, registries) ==
    IF \/ startswith(submodule_like, FilePrefix) \/ startswith(submodule_like, HttpPrefix)
       \/ startswith(submodule_like, HttpsPrefix) \/ startswith(submodule_like, GitAtPrefix)
    THEN [err |-> "none", why |-> "", ret |-> [url |-> submodule_like, slot |-> None]]
    ELSE IF ~IdentifierMatch(submodule_like)
         THEN [err |-> "ItemNotFoundError", why |-> "Invalid submodule-like item",
               ret |-> None]
    ELSE IF FirstHolding(d, submodule_like, registries) = None
         THEN [err |-> "ItemNotFoundError", why |-> "not found in registries", ret |-> None]
    ELSE [err |-> "none", why |-> "",
          ret |-> [url |-> FilePrefix, slot |-> FirstHolding(d, submodule_like, registries)]]

(* ------------------------------------------------------------------ *)
(* Installation                                                        *)
(* ------------------------------------------------------------------ *)

\* str.removeprefix, str.removesuffix
removeprefix(s, p) == IF startswith(s, p) THEN SubSeq(s, Len(p) + 1, Len(s)) ELSE s
removesuffix(s, p) == IF endswith(s, p) THEN SubSeq(s, 1, Len(s) - Len(p)) ELSE s

\* str.rstrip('/')
RECURSIVE rstripSlash(_)
rstripSlash(s) ==
    IF s # <<>> /\ s[Len(s)] = "/" THEN rstripSlash(SubSeq(s, 1, Len(s) - 1)) ELSE s

DotGit == <<".", "g", "i", "t">>

\* lines 921-925: re.sub(r'\.git$', '', ...) also cuts a ".git" that stands
\* before one final newline; os.path.basename is what follows the last "/"
gitBasename(git) ==
    LET stripped == rstripSlash(git)
        cut == IF endswith(stripped, DotGit) THEN removesuffix(stripped, DotGit)
               ELSE IF endswith(stripped, DotGit \o <<NL>>)
                    THEN removesuffix(stripped, DotGit \o <<NL>>) \o <<NL>>
                    ELSE stripped
        fields == split(cut, "/")
    IN  fields[Len(fields)]

OnInstall == <<".on-install">>

\* the tree a completed copy or clone leaves at dest: the submodule with
\* its private module folder and, if the origin has one, its install hook
Installed(d, dest, with_hook) ==
    (IF with_hook THEN (dest \o <<MangoDir, OnInstall>> :> "file") ELSE <<>>)
    @@ makedirs(d, dest \o <<MangoDir>>)

\* line 364: shutil.copytree(copy_from, submodule_path). The origin lies
\* outside the disk: fetch tells whether it can be read ("ok"), is missing
\* ("missing") or fails part-way ("partial", the destination is left begun)
copytree(d, copy_from, dest, fetch, with_hook) ==
    IF fetch = "missing" THEN [err |-> "FileNotFoundError", disk |-> d]
    ELSE IF exists(d, dest) THEN [err |-> "FileExistsError", disk |-> d]
    ELSE IF fetch = "partial" THEN [err |-> "shutil.Error", disk |-> makedirs(d, dest)]
    ELSE [err |-> "none", disk |-> Installed(d, dest, with_hook)]

\* lines 366-373: git clone --recurse-submodules; a failed clone, and a
\* clone onto a directory that is there and not empty, leave things as they were
gitClone(d, url, dest, fetch, with_hook) ==
    IF fetch # "ok" \/ listdir(d, dest) # {} \/ (exists(d, dest) /\ ~isdir(d, dest))
    THEN [err |-> "GitOperationError", disk |-> d]
    ELSE [err |-> "none", disk |-> Installed(d, dest, with_hook)]

\* lines 844-859 with throw=False; run is what running the file does:
\* "exit0", "exit1" (the status is not looked at) or "OSError" (the file
\* cannot be executed). (executeUnchecked: the variant without the test)
executeUnchecked(d, executable_path, run) ==
    [err |-> IF run = "OSError" THEN "OSError" ELSE "none",
     events |-> <<Event("run", executable_path, run = "exit0")>>]
executeIfExists(d, executable_path, run) ==
    IF exists(d, executable_path)
    THEN [err |-> IF run = "OSError" THEN "OSError" ELSE "none",
          events |-> <<Event("run", executable_path, run = "exit0")>>]
    ELSE [err |-> "none", events |-> <<>>]

\* lines 336-378
installSubmodule(d, repo_path, git_path, rename_to, fetch, with_hook, run) ==
    LET submodule_name == gitBasename(git_path)
        submodules_dir == repo_path \o <<MangoDir, SubmodulesDir>>
        made == makedirs(d, submodules_dir)
        submodule_path == pathjoin(submodules_dir,
                              IF rename_to # None /\ rename_to[1] # <<>>
                              THEN rename_to[1] ELSE submodule_name)
        local == /\ ~startswith(git_path, HttpPrefix)
                 /\ ~startswith(git_path, HttpsPrefix)
                 /\ ~startswith(git_path, GitAtPrefix)
        local_path == removesuffix(removeprefix(git_path, FilePrefix), DotGit)
        fetched == IF local THEN copytree(made, local_path, submodule_path, fetch, with_hook)
                   ELSE gitClone(made, git_path, submodule_path, fetch, with_hook)
        fetch_event == Event(IF local THEN "copytree" ELSE "git clone",
                             submodule_path, fetched.err = "none")
        hook == executeIfExists(fetched.disk, submodule_path \o <<MangoDir, OnInstall>>, run)
    IN  IF ~isMangoRepo(d, repo_path)
        THEN [err |-> "InvalidMangoRepoError", disk |-> d, events |-> <<>>]
        ELSE IF fetched.err # "none"
             THEN [err |-> fetched.err, disk |-> fetched.disk, events |-> <<fetch_event>>]
        ELSE [err |-> hook.err, disk |-> fetched.disk,
              events |-> <<fetch_event>> \o hook.events]

(* ------------------------------------------------------------------ *)
(* Virtual paths                                                       *)
(* ------------------------------------------------------------------ *)

\* lines 147-149: one os.path.join(path, ".mango", ".submodules", submodule)
\* for every field of the virtual path
RECURSIVE MapLoop(_, _)
MapLoop(path, submodules) ==
    IF submodules = <<>> THEN path
    ELSE MapLoop(pathjoin(path \o <<MangoDir, SubmodulesDir>>, Head(submodules)),
                 Tail(submodules))

\* lines 138-150; "".split(':') is [""], one field
mapSubmodulePath(submodule_virtual_path, base_path) ==
    MapLoop(base_path, split(submodule_virtual_path, ":"))

\* lines 43-50, with "." the root repository
relativeOSPath(script) ==
    pathjoin(mapSubmodulePath(join(<<":">>, script.virtual_submodule_path), RootRepo),
             script.within_submodule_path)

(* ------------------------------------------------------------------ *)
(* Inputs                                                              *)
(* ------------------------------------------------------------------ *)

\* names used by the inputs: scripts s, t, u; commands a, b, c; the
\* submodules l (with n nested in it) and m, which is never installed
LibRepo == submodule_repo_path(RootRepo, <<"l">>)
NestedRepo == submodule_repo_path(LibRepo, <<"n">>)

\* lines a root bindings file is made of
RootLines ==
    { <<"[", "l", "]", " ", "*", NL>>,                 \* [l] *
      <<"[", "l", "]", " ", "a", NL>>,                 \* [l] a
      <<"[", "l", "]", " ", "a", " ", "b", NL>>,       \* [l] a b
      <<"[", "m", "]", " ", "*", NL>>,                 \* [m] *
      <<"[", "l", " ", "a", NL>>,                      \* [l a
      <<"s", ":", " ", "a", " ", "b", NL>>,            \* s: a b
      <<"*", "s", ":", " ", "c", NL>>,                 \* *s: c
      <<"s", ":", " ", "a", " ", "#", " ", "b", NL>>,  \* s: a # b
      <<" ", "s", " ", ":", " ", "a", NL>>,            \*  s : a
      <<"s", " ", "a", NL>>,                           \* s a
      <<":", " ", "a", NL>>,                           \* : a
      <<"#", " ", "c", NL>> }                          \* # c

\* the texts of at most n lines of RootLines
TextsUpTo(n) ==
    UNION { { writelines(ls) : ls \in [1..k -> RootLines] } : k \in 0..n }

\* the submodule trees a root can sit on: the .instructions files below it
SubmoduleTrees ==
    { <<>>,
      (instructions_path(LibRepo) :> <<"t", ":", " ", "a", " ", "b", NL>>),
      (instructions_path(LibRepo) :>
          <<"t", ":", " ", "a", " ", "b", NL, "*", "u", ":", " ", "b", NL, "t", ":", " ", "c", NL>>),
      (instructions_path(LibRepo) :> <<"[", "n", "]", " ", "*", NL, "t", ":", " ", "a", NL>>),
      (instructions_path(LibRepo) :> <<"[", "n", "]", " ", "*", NL, "t", ":", " ", "a", NL>>)
          @@ (instructions_path(NestedRepo) :> <<"u", ":", " ", "a", " ", "c", NL>>) }

\* root files the mutations start from
MutationTexts ==
    { <<>>,
      <<"#", " ", "c">>,
      <<"#", " ", "c", NL, "s", ":", " ", "a", " ", "b", NL>>,
      <<"*", "s", ":", " ", "a", " ", "b", " ", "c", NL, "t", ":", " ", "a", NL>>,
      <<"[", "l", "]", " ", "a", NL, " ", "s", " ", ":", " ", "b", " ", "a", " ", "#", " ", "c", NL>>,
      <<"t", ":", " ", "c", NL, "[", "l", "]", " ", "*", NL, "s", ":", " ", "a", " ", "c">> }

ScriptNames == { <<"s">>, <<"t">> }
BindingLists == { << <<"a">>, <<"b">> >>, << <<"b">>, <<"c">> >> }
RemoveSets == { {}, { <<"a">> }, { <<"b">>, <<"c">> }, { <<"a">>, <<"c">> } }
SubmoduleNames == { <<"l">> }

\* lines of the root files the list of exported submodules is read from
ExportLines ==
    { <<"[", "l", "]", " ", "*", NL>>,                 \* [l] *
      <<"[", "m", "]", "*", " ", NL>>,                 \* [m]*
      <<"[", "l", "]", " ", "a", NL>>,                 \* [l] a
      <<"[", "l", "]", " ", "a", "*", NL>>,            \* [l] a*
      <<"[", "l", " ", "*", NL>>,                      \* [l *
      <<"[", "l", " ", "a", NL>>,                      \* [l a
      <<"s", ":", " ", "a", " ", "*", NL>>,            \* s: a *
      <<"#", " ", "c", NL>> }                          \* # c

\* the texts of at most n lines of ExportLines
ExportTextsUpTo(n) ==
    UNION { { writelines(ls) : ls \in [1..k -> ExportLines] } : k \in 0..n }

\* the two processes and the calls they make
Procs == {1, 2}
FirstCalls ==
    { [op |-> "bindToItem", submodule |-> None, script_name |-> <<"s">>,
       bindings |-> << <<"b">>, <<"c">> >>] }
SecondCalls ==
    { [op |-> "bindToItem", submodule |-> None, script_name |-> <<"t">>,
       bindings |-> << <<"b">> >>],
      [op |-> "exportSubmoduleBindings", submodule |-> Some(<<"l">>), script_name |-> <<>>,
       bindings |-> <<>>] }

\* chains of submodule names a virtual path is made of
Chains == {<<>>, << <<"l">> >>, << <<"l">>, <<"n">> >>, << <<"m">> >>}

\* registry inputs: item names (one with a path separator), both kinds,
\* one origin, the registries a lookup is given
ItemNames == {<<"a">>, <<"b">>, <<"a", "/", "b">>}
ItemTypes == {"submodule", "template"}
Origin == HttpsPrefix \o <<"h", "/", "l", ".", "g", "i", "t">>
SharedRegistry == << <<"opt">>, <<".submodules.registry">> >>
Registries == <<getUserRegistryPath("submodule"), SharedRegistry>>
SubmoduleLikes ==
    { FilePrefix \o <<"x">>, HttpPrefix \o <<"h">>, Origin, GitAtPrefix \o <<"h">>,
      <<"a">>, <<"b">>, <<"c">>, <<"a", "/", "b">>, <<"a", NL>> }

\* local repositories a source is built from, and the names given to them
LocalPaths == {<<"x", "/", "l">>, <<"x", "/", "a", " ", "b">>}
Renames == {None, Some(<<"a">>), Some(<<"a", "/", "b">>)}

\* installation inputs: a directory that is no repository, origins that
\* are cloned and copied, a new name
PlainPath == << <<"p">> >>
RepoPaths == {RootRepo, PlainPath}
GitPaths ==
    { Origin, <<"x", "/", "l">>, FilePrefix \o <<"x", "/", "l", ".", "g", "i", "t">> }
RenameTos == {None, Some(<<"m">>), Some(<<"m", "/", "n">>)}
Fetches == {"ok", "missing", "partial"}
Runs == {"exit0", "exit1", "OSError"}

\* a registered item as git clone --bare leaves it
Slot(registry, name) ==
    (pathjoin(registry, name) \o << <<"config">> >> :> "file")
    @@ makedirs(<<>>, pathjoin(registry, name) \o << <<"objects">> >>)

\* the root repository and a plain directory
BaseDisk == makedirs(makedirs(<<>>, RootRepo \o <<MangoDir>>), PlainPath)

\* the disks the registry specification starts from
InitialDisks ==
    { BaseDisk @@ user @@ shared :
        user \in {<<>>, Slot(getUserRegistryPath("submodule"), <<"a">>)},
        shared \in {<<>>, Slot(SharedRegistry, <<"a">>),
                    Slot(SharedRegistry, <<"a">>) @@ Slot(SharedRegistry, <<"b">>)} }

(* ------------------------------------------------------------------ *)
(* State                                                               *)
(* ------------------------------------------------------------------ *)

\* fs    the .instructions files that exist, by path
\* last  the last call made: its name and arguments, the root file before
\*       it, the exception it raised and the value it returned
\* steps the number of mutating calls made so far

RootFile == instructions_path(RootRepo)

NoCall ==
    [op |-> "none", script_name |-> <<>>, submodule |-> None, bindings |-> <<>>,
     bindings_to_remove |-> {}, flag |-> FALSE, pre |-> <<>>,
     err |-> "none", why |-> "", ret |-> <<>>,
     item |-> <<>>, kind |-> "", repo |-> <<>>, rename |-> None, path |-> <<>>,
     env |-> <<>>, before |-> <<>>, events |-> <<>>]

Init ==
    /\ \E text \in MutationTexts :
          fs = (RootFile :> text)
               @@ (instructions_path(LibRepo) :> <<"t", ":", " ", "a", " ", "b", NL>>)
    /\ last = NoCall
    /\ steps = 0
    /\ disk = BaseDisk
    /\ procs = <<>>

InitResolve ==
    /\ \E text \in TextsUpTo(MaxLines), tree \in SubmoduleTrees :
          fs = (RootFile :> text) @@ tree
    /\ last = NoCall
    /\ steps = 0
    /\ disk = BaseDisk
    /\ procs = <<>>

\* what a call through the wrapper leaves in last
Called(call, out) == [call EXCEPT !.pre = fs[RootFile], !.err = out.err, !.why = out.why]

SetSourcePolicy ==
    \E script_name \in ScriptNames, use_source \in BOOLEAN :
        LET out == enactInstructionsList(fs, RootRepo,
                       setSourcePolicy(script_name, use_source, InstructionLines(fs, RootRepo)))
        IN  /\ steps < MaxSteps
            /\ fs' = out.fs
            /\ last' = Called([NoCall EXCEPT !.op = "setSourcePolicy",
                                             !.script_name = script_name,
                                             !.flag = use_source], out)
            /\ steps' = steps + 1
            /\ UNCHANGED <<disk, procs>>

BindToItem ==
    \E submodule \in {None} \cup {Some(n) : n \in SubmoduleNames},
       item \in ScriptNames, bindings \in BindingLists :
        LET out == enactInstructionsList(fs, RootRepo,
                       bindToItem(submodule, item, bindings, InstructionLines(fs, RootRepo)))
        IN  /\ steps < MaxSteps
            /\ fs' = out.fs
            /\ last' = Called([NoCall EXCEPT !.op = "bindToItem", !.script_name = item,
                                             !.submodule = submodule,
                                             !.bindings = bindings], out)
            /\ steps' = steps + 1
            /\ UNCHANGED <<disk, procs>>

ExportSubmoduleBindings ==
    \E submodule \in SubmoduleNames :
        LET out == enactInstructionsList(fs, RootRepo,
                       exportSubmoduleBindings(submodule, InstructionLines(fs, RootRepo)))
        IN  /\ steps < MaxSteps
            /\ fs' = out.fs
            /\ last' = Called([NoCall EXCEPT !.op = "exportSubmoduleBindings",
                                             !.submodule = Some(submodule)], out)
            /\ steps' = steps + 1
            /\ UNCHANGED <<disk, procs>>

RemoveAllInstructionsFromSubmodule ==
    \E submodule \in SubmoduleNames :
        LET out == enactInstructionsList(fs, RootRepo,
                       removeAllInstructionsFromSubmodule(submodule, InstructionLines(fs, RootRepo)))
        IN  /\ steps < MaxSteps
            /\ fs' = out.fs
            /\ last' = Called([NoCall EXCEPT !.op = "removeAllInstructionsFromSubmodule",
                                             !.submodule = Some(submodule)], out)
            /\ steps' = steps + 1
            /\ UNCHANGED <<disk, procs>>

RemoveInstructionBindings ==
    \E script_name \in ScriptNames, bindings_to_remove \in RemoveSets,
       remove_all \in BOOLEAN :
        LET out == enactInstructionsList(fs, RootRepo,
                       removeInstructionBindings(script_name, bindings_to_remove, remove_all,
                                                 InstructionLines(fs, RootRepo)))
        IN  /\ steps < MaxSteps
            /\ fs' = out.fs
            /\ last' = Called([NoCall EXCEPT !.op = "removeInstructionBindings",
                                             !.script_name = script_name,
                                             !.bindings_to_remove = bindings_to_remove,
                                             !.flag = remove_all], out)
            /\ steps' = steps + 1
            /\ UNCHANGED <<disk, procs>>

DeleteInstructionEntry ==
    \E script_name \in ScriptNames :
        LET out == enactInstructionsList(fs, RootRepo,
                       deleteInstructionEntry(script_name, InstructionLines(fs, RootRepo)))
        IN  /\ steps < MaxSteps
            /\ fs' = out.fs
            /\ last' = Called([NoCall EXCEPT !.op = "deleteInstructionEntry",
                                             !.script_name = script_name], out)
            /\ steps' = steps + 1
            /\ UNCHANGED <<disk, procs>>

\* getRegisteredItems(root): the flattened table, or the exception
GetRegisteredItems ==
    /\ LET out == getRegisteredItems(fs, RootRepo, <<>>)
       IN  last' = [NoCall EXCEPT !.op = "getRegisteredItems", !.pre = fs[RootFile],
                                  !.err = out.err, !.ret = out.scripts]
    /\ UNCHANGED <<fs, steps, disk, procs>>

\* parseInstructionEntry on one line of the root file
ParseInstructionEntry ==
    \E i \in 1..Len(readlines(fs[RootFile])) :
        /\ last' = [NoCall EXCEPT !.op = "parseInstructionEntry",
                                  !.pre = readlines(fs[RootFile])[i],
                                  !.ret = parseInstructionEntry(readlines(fs[RootFile])[i])]
        /\ UNCHANGED <<fs, steps, disk, procs>>

InitLookup ==
    /\ \E text \in ExportTextsUpTo(MaxLines) :
          fs = (RootFile :> text)
               @@ (instructions_path(LibRepo) :> <<"t", ":", " ", "a", " ", "b", NL>>)
    /\ last = NoCall
    /\ steps = 0
    /\ disk = BaseDisk
    /\ procs = <<>>

\* mapSubmodulePath as relativeOSPath calls it for the chain of a script
MapSubmodulePath ==
    \E chain \in Chains :
        /\ last' = [NoCall EXCEPT !.op = "mapSubmodulePath", !.item = chain,
                                  !.path = mapSubmodulePath(join(<<":">>, chain), RootRepo),
                                  !.ret = relativeOSPath(ScriptInfo(chain, <<"s">>,
                                                                    FALSE, <<>>))]
        /\ UNCHANGED <<fs, steps, disk, procs>>

GetExportedSubmodules ==
    /\ LET out == getExportedSubmodules(fs, RootRepo)
       IN  last' = [NoCall EXCEPT !.op = "getExportedSubmodules", !.pre = fs[RootFile],
                                  !.err = out.err, !.ret = out.names]
    /\ UNCHANGED <<fs, steps, disk, procs>>

\* a process before its call: nothing read, nothing written
Idle(call) == [pc |-> "read", call |-> call, lines |-> <<>>, bytes |-> <<>>,
               read_at |-> 0, wrote_at |-> 0]

InitConcurrent ==
    /\ \E text \in MutationTexts :
          /\ fs = (RootFile :> text)
                  @@ (instructions_path(LibRepo) :> <<"t", ":", " ", "a", " ", "b", NL>>)
          /\ last = [NoCall EXCEPT !.pre = text]
    /\ steps = 0
    /\ disk = BaseDisk
    /\ \E first \in FirstCalls, second \in SecondCalls :
          procs = <<Idle(first), Idle(second)>>

\* lines 646-647: a process reads the lines of the file
ProcRead ==
    \E p \in Procs :
        /\ procs[p].pc = "read"
        /\ procs' = [procs EXCEPT ![p].pc = "open",
                                  ![p].lines = InstructionLines(fs, RootRepo),
                                  ![p].read_at = steps + 1]
        /\ steps' = steps + 1
        /\ UNCHANGED <<fs, last, disk>>

\* lines 650-652: it runs the wrapped function and opens the file for
\* writing, which empties it
ProcOpen ==
    \E p \in Procs :
        LET result == Apply(procs[p].call,
                            GivenLines(procs[p].lines, InstructionLines(fs, RootRepo)))
        IN  /\ procs[p].pc = "open"
            /\ procs' = [procs EXCEPT ![p].pc = "write",
                                      ![p].bytes = writelines(result.lines)]
            /\ fs' = [fs EXCEPT ![RootFile] = <<>>]
            /\ steps' = steps + 1
            /\ UNCHANGED <<last, disk>>

\* line 653 and the close: the lines reach the file
ProcWrite ==
    \E p \in Procs :
        /\ procs[p].pc = "write"
        /\ fs' = [fs EXCEPT ![RootFile] = Overlay(fs[RootFile], procs[p].bytes)]
        /\ procs' = [procs EXCEPT ![p].pc = "done", ![p].wrote_at = steps + 1]
        /\ steps' = steps + 1
        /\ UNCHANGED <<last, disk>>

InitRegistry ==
    /\ fs = <<>>
    /\ last = NoCall
    /\ steps = 0
    /\ disk \in InitialDisks
    /\ procs = <<>>

InitInstall ==
    /\ fs = <<>>
    /\ last = NoCall
    /\ steps = 0
    /\ disk = BaseDisk
    /\ procs = <<>>

RegisterSubmodule ==
    \E item_type \in ItemTypes, item_name \in ItemNames, clone_ok \in BOOLEAN :
        LET out == registerSubmodule(disk, item_type, Origin, item_name, clone_ok)
        IN  /\ steps < MaxSteps
            /\ disk' = out.disk
            /\ last' = [NoCall EXCEPT !.op = "registerSubmodule", !.item = item_name,
                                      !.kind = item_type,
                                      !.path = pathjoin(getUserRegistryPath(item_type), item_name),
                                      !.before = disk, !.err = out.err,
                                      !.events = out.events, !.ret = out.ret]
            /\ steps' = steps + 1
            /\ UNCHANGED <<fs, procs>>

UnregisterSubmodule ==
    \E item_type \in ItemTypes, item_name \in ItemNames, rmdir_ok \in BOOLEAN :
        \E kept \in SUBSET listdir(disk, pathjoin(getUserRegistryPath(item_type), item_name)) :
            LET out == unregisterSubmodule(disk, item_name, item_type, kept, rmdir_ok)
            IN  /\ steps < MaxSteps
                /\ disk' = out.disk
                /\ last' = [NoCall EXCEPT !.op = "unregisterSubmodule", !.item = item_name,
                                          !.kind = item_type,
                                          !.path = pathjoin(getUserRegistryPath(item_type), item_name),
                                          !.env = [kept |-> kept, rmdir_ok |-> rmdir_ok],
                                          !.before = disk, !.err = out.err]
                /\ steps' = steps + 1
                /\ UNCHANGED <<fs, procs>>

GitPathFromSubmodule ==
    \E submodule_like \in SubmoduleLikes :
        LET out == gitPathFromSubmodule(disk, submodule_like, Registries)
        IN  /\ steps < MaxSteps
            /\ last' = [NoCall EXCEPT !.op = "gitPathFromSubmodule", !.item = submodule_like,
                                      !.before = disk, !.err = out.err, !.why = out.why,
                                      !.ret = out.ret]
            /\ steps' = steps + 1
            /\ UNCHANGED <<fs, disk, procs>>

ListRegisteredSubmodules ==
    \E path \in ToSet(Registries) :
        /\ steps < MaxSteps
        /\ last' = [NoCall EXCEPT !.op = "listRegisteredSubmodules", !.path = path,
                                  !.before = disk,
                                  !.ret = listRegisteredSubmodules(disk, path)]
        /\ steps' = steps + 1
        /\ UNCHANGED <<fs, disk, procs>>

FromGitRepo ==
    \E local_path \in LocalPaths, item_type \in ItemTypes, rename \in Renames :
        LET out == from_git_repo(local_path, item_type, rename)
        IN  /\ steps < MaxSteps
            /\ last' = [NoCall EXCEPT !.op = "from_git_repo", !.item = local_path,
                                      !.kind = item_type, !.rename = rename,
                                      !.before = disk, !.err = out.err, !.ret = out.ret]
            /\ steps' = steps + 1
            /\ UNCHANGED <<fs, disk, procs>>

InstallSubmodule ==
    \E repo_path \in RepoPaths, git_path \in GitPaths, rename_to \in RenameTos,
       fetch \in Fetches, with_hook \in BOOLEAN, run \in Runs :
        LET out == installSubmodule(disk, repo_path, git_path, rename_to, fetch, with_hook, run)
        IN  /\ steps < MaxSteps
            /\ disk' = out.disk
            /\ last' = [NoCall EXCEPT !.op = "installSubmodule", !.item = git_path,
                                      !.repo = repo_path, !.rename = rename_to,
                                      !.env = [fetch |-> fetch, with_hook |-> with_hook,
                                               run |-> run],
                                      !.before = disk, !.err = out.err,
                                      !.events = out.events]
            /\ steps' = steps + 1
            /\ UNCHANGED <<fs, procs>>

Next ==
    \/ SetSourcePolicy
    \/ BindToItem
    \/ ExportSubmoduleBindings
    \/ RemoveAllInstructionsFromSubmodule
    \/ RemoveInstructionBindings
    \/ DeleteInstructionEntry

Spec == Init /\ [][Next]_vars

NextResolve ==
    \/ GetRegisteredItems
    \/ ParseInstructionEntry

SpecResolve == InitResolve /\ [][NextResolve]_vars

NextLookup ==
    \/ MapSubmodulePath
    \/ GetExportedSubmodules

SpecLookup == InitLookup /\ [][NextLookup]_vars

NextConcurrent ==
    \/ ProcRead
    \/ ProcOpen
    \/ ProcWrite

SpecConcurrent == InitConcurrent /\ [][NextConcurrent]_vars

NextRegistry ==
    \/ RegisterSubmodule
    \/ UnregisterSubmodule
    \/ GitPathFromSubmodule
    \/ FromGitRepo
    \/ ListRegisteredSubmodules

SpecRegistry == InitRegistry /\ [][NextRegistry]_vars

NextInstall == InstallSubmodule

SpecInstall == InitInstall /\ [][NextInstall]_vars

(* ------------------------------------------------------------------ *)
(* Vocabulary of the properties                                        *)
(* ------------------------------------------------------------------ *)

\* the lines of the root file the last call read, and of the root file now
PreLines == readlines(last.pre)
PostLines == readlines(fs[RootFile])

\* the resolver on the same submodule trees, with another root text
ResolveText(text) == getRegisteredItems([fs EXCEPT ![RootFile] = text], RootRepo, <<>>)

\* a sequence without its i-th element
Without(seq, i) == SubSeq(seq, 1, i - 1) \o SubSeq(seq, i + 1, Len(seq))

\* a submodule directive with a closing bracket, its name and its export spec
IsDirective(raw) == startswith(strip(raw), <<"[">>) /\ contains(strip(raw), "]")
DirectiveName(raw) == SubSeq(strip(raw), 2, index(strip(raw), "]") - 1)
DirectiveSpec(raw) ==
    splitws(SubSeq(strip(raw), index(strip(raw), "]") + 1, Len(strip(raw))))

\* the table a submodule of the root resolves to on its own, and the same
\* entries located from the root
OwnTable(name) == getRegisteredItems(fs, submodule_repo_path(RootRepo, name), <<>>)
Under(name, scripts) ==
    [k \in 1..Len(scripts) |->
        [scripts[k] EXCEPT !.virtual_submodule_path = <<name>> \o @]]

\* the entries bound to command c, each re-emitted under c alone
ReAliased(scripts, c) ==
    LET bound == SelectSeq(scripts, LAMBDA e : c \in ToSet(e.bindings))
    IN  [k \in 1..Len(bound) |-> [bound[k] EXCEPT !.bindings = <<c>>]]

\* the lines holding an entry of a script, and the first of them
EntryLines(lines, script_name) ==
    {i \in 1..Len(lines) : parseInstructionEntry(lines[i]) # None
                           /\ parseInstructionEntry(lines[i])[1].script_name = script_name}
FirstEntryLine(lines, script_name) ==
    CHOOSE i \in EntryLines(lines, script_name) :
        \A j \in EntryLines(lines, script_name) : i <= j
EntryAt(lines, i) == parseInstructionEntry(lines[i])[1]

(* ------------------------------------------------------------------ *)
(* Properties of the resolver (SpecResolve)                            *)
(* ------------------------------------------------------------------ *)

\* C1: a directive naming a submodule with no bindings file on disk is inert:
\* when the other lines of the root file resolve, getRegisteredItems returns
\* normally, and returns exactly what those other lines produce.
C1_MissingSubmoduleIsInert ==
    last.op = "getRegisteredItems" =>
        \A i \in 1..Len(PreLines) :
            ( /\ IsDirective(PreLines[i])
              /\ instructions_path(submodule_repo_path(RootRepo, DirectiveName(PreLines[i])))
                     \notin DOMAIN fs
              /\ ResolveText(writelines(Without(PreLines, i))).err = "none" )
            => ( /\ last.err = "none"
                 /\ last.ret = ResolveText(writelines(Without(PreLines, i))).scripts )

\* C2: a selective directive listing several command names exports each of
\* them: every entry of the submodule's table bound to a listed name c is in
\* the root's table, re-emitted with bindings = <<c>>.
C2_SelectiveListExportsEachName ==
    (last.op = "getRegisteredItems" /\ last.err = "none") =>
        \A i \in 1..Len(PreLines) :
            (IsDirective(PreLines[i]) /\ Len(DirectiveSpec(PreLines[i])) >= 2) =>
                LET name == DirectiveName(PreLines[i])
                    table == Under(name, OwnTable(name).scripts)
                IN  \A c \in ToSet(DirectiveSpec(PreLines[i])) :
                        \A k \in 1..Len(ReAliased(table, c)) :
                            ReAliased(table, c)[k] \in ToSet(last.ret)

\* C3: a directive exporting one command name c contributes, at its place in
\* the root's table, exactly the submodule's entries bound to c, each with
\* bindings = <<c>> and with the path, the chain and the source policy the
\* submodule reports; nothing else of the submodule is contributed.
C3_SelectiveExportReAliases ==
    (last.op = "getRegisteredItems" /\ last.err = "none") =>
        \A i \in 1..Len(PreLines) :
            ( /\ IsDirective(PreLines[i])
              /\ Len(DirectiveSpec(PreLines[i])) = 1
              /\ DirectiveSpec(PreLines[i]) # << <<"*">> >> ) =>
                LET name == DirectiveName(PreLines[i])
                    c == DirectiveSpec(PreLines[i])[1]
                IN  last.ret =
                        ResolveText(writelines(SubSeq(PreLines, 1, i - 1))).scripts
                        \o ReAliased(Under(name, OwnTable(name).scripts), c)
                        \o ResolveText(writelines(SubSeq(PreLines, i + 1, Len(PreLines)))).scripts

\* the root is "[l] a" over a submodule l that binds t to a and b: the table
\* is the one entry t, bound to a alone
C3_Witness ==
    /\ last.op = "getRegisteredItems"
    /\ last.err = "none"
    /\ last.pre = <<"[", "l", "]", " ", "a", NL>>
    /\ fs[instructions_path(LibRepo)] = <<"t", ":", " ", "a", " ", "b", NL>>
    /\ last.ret = << ScriptInfo(<< <<"l">> >>, <<"t">>, FALSE, << <<"a">> >>) >>

\* C4: a wildcard directive contributes, at its place in the root's table,
\* exactly the table the submodule resolves to on its own, each entry
\* unchanged but for the submodule's name put in front of its chain.
C4_WildcardReproducesSubmodule ==
    (last.op = "getRegisteredItems" /\ last.err = "none") =>
        \A i \in 1..Len(PreLines) :
            (IsDirective(PreLines[i]) /\ DirectiveSpec(PreLines[i]) = << <<"*">> >>) =>
                LET name == DirectiveName(PreLines[i])
                IN  last.ret =
                        ResolveText(writelines(SubSeq(PreLines, 1, i - 1))).scripts
                        \o Under(name, OwnTable(name).scripts)
                        \o ResolveText(writelines(SubSeq(PreLines, i + 1, Len(PreLines)))).scripts

\* the root holds "[l] *" after an entry of its own, l re-exports its nested
\* submodule n: the table holds the root's entry, then n's, then l's
C4_Witness ==
    /\ last.op = "getRegisteredItems"
    /\ last.err = "none"
    /\ last.pre = <<"*", "s", ":", " ", "c", NL, "[", "l", "]", " ", "*", NL>>
    /\ instructions_path(NestedRepo) \in DOMAIN fs
    /\ last.ret = << ScriptInfo(<<>>, <<"s">>, TRUE, << <<"c">> >>),
                     ScriptInfo(<< <<"l">>, <<"n">> >>, <<"u">>, FALSE, << <<"a">>, <<"c">> >>),
                     ScriptInfo(<< <<"l">> >>, <<"t">>, FALSE, << <<"a">> >>) >>

\* C5: a malformed line never fails the read and never yields an invalid
\* entry: parseInstructionEntry returns None or an entry with a name, and
\* getRegisteredItems raises nothing for it and returns only entries with a
\* non-empty path.
C5_MalformedLinesAreSkipped ==
    /\ last.op = "parseInstructionEntry" =>
          (last.ret = None \/ last.ret[1].script_name # <<>>)
    /\ last.op = "getRegisteredItems" =>
          /\ last.err # "IndexError"
          /\ \A k \in 1..Len(last.ret) : last.ret[k].within_submodule_path # <<>>

\* the script lines of the root file as parseInstructionEntry reads them
RECURSIVE ParsedEntries(_)
ParsedEntries(lines) ==
    IF lines = <<>> THEN <<>>
    ELSE (IF parseInstructionEntry(Head(lines)) = None THEN <<>>
          ELSE <<parseInstructionEntry(Head(lines))[1]>>)
         \o ParsedEntries(Tail(lines))

\* the root-level entries of a table, as (name, policy, bindings)
RootEntries(scripts) ==
    LET own == SelectSeq(scripts, LAMBDA e : e.virtual_submodule_path = <<>>)
    IN  [k \in 1..Len(own) |->
            [script_name |-> own[k].within_submodule_path,
             is_source_entry |-> own[k].source, bindings |-> own[k].bindings]]

\* C6: on a root file whose lines are comments, directives and script
\* entries, getRegisteredItems and parseInstructionEntry agree on the name,
\* the source policy and the bindings of every script entry; an inline
\* comment gives no binding.
C6_ResolverAgreesWithEntryParser ==
    ( /\ last.op = "getRegisteredItems"
      /\ last.err = "none"
      /\ \A i \in 1..Len(PreLines) :
            \/ IsPreamble(PreLines[i])
            \/ startswith(strip(PreLines[i]), <<"[">>)
            \/ parseInstructionEntry(PreLines[i]) # None )
    => RootEntries(last.ret) = ParsedEntries(PreLines)

(* ------------------------------------------------------------------ *)
(* Properties of the mutations (Spec)                                  *)
(* ------------------------------------------------------------------ *)

\* C7: bindToItem on a script that has an entry unions the commands into
\* that entry: the file still has one entry for the script, and its binding
\* set is the old one joined with the new commands.
C7_BindUnionsIntoExistingEntry ==
    ( /\ last.op = "bindToItem"
      /\ last.submodule = None
      /\ last.err = "none"
      /\ Cardinality(EntryLines(PreLines, last.script_name)) = 1 )
    => /\ Cardinality(EntryLines(PostLines, last.script_name)) = 1
       /\ ToSet(EntryAt(PostLines, FirstEntryLine(PostLines, last.script_name)).bindings)
            = ToSet(EntryAt(PreLines, FirstEntryLine(PreLines, last.script_name)).bindings)
              \cup ToSet(last.bindings)

\* C8: after removeInstructionBindings(s, remove_all = True), whatever calls
\* came before, the root file has no entry for s and the root's table has no
\* root-level binding for s.
C8_UnbindAllLeavesNoEntry ==
    ( /\ last.op = "removeInstructionBindings"
      /\ last.flag
      /\ last.err = "none" )
    => /\ EntryLines(PostLines, last.script_name) = {}
       /\ \A k \in 1..Len(ResolveText(fs[RootFile]).scripts) :
             LET e == ResolveText(fs[RootFile]).scripts[k]
             IN  ~(e.virtual_submodule_path = <<>>
                   /\ e.within_submodule_path = last.script_name)

\* C9: removeInstructionBindings without remove_all, on a file with no entry
\* for the script or with a requested command that the entry does not bind,
\* raises ValueError and leaves the file as it was.
C9_FailedUnbindLeavesFile ==
    (last.op = "removeInstructionBindings" /\ ~last.flag) =>
        LET entries == EntryLines(PreLines, last.script_name)
            bound == ToSet(EntryAt(PreLines, FirstEntryLine(PreLines, last.script_name)).bindings)
        IN  /\ entries = {} =>
                 (last.err = "ValueError" /\ last.why = "NotRegistered"
                  /\ fs[RootFile] = last.pre)
            /\ (entries # {} /\ ~(last.bindings_to_remove \subseteq bound)) =>
                 (last.err = "ValueError" /\ last.why = "UnknownBinding"
                  /\ fs[RootFile] = last.pre)

\* one requested command is bound, another is not: the call fails
C9_Witness ==
    /\ last.op = "removeInstructionBindings"
    /\ ~last.flag
    /\ last.why = "UnknownBinding"
    /\ EntryLines(PreLines, last.script_name) # {}
    /\ \E c \in last.bindings_to_remove :
          c \in ToSet(EntryAt(PreLines, FirstEntryLine(PreLines, last.script_name)).bindings)
    /\ fs[RootFile] = last.pre

\* C10: a successful removeInstructionBindings of commands that are all bound
\* leaves the script's entry on the same line, with the bindings it had minus
\* the removed ones, in their order, and with its source policy; when no
\* binding is left, the line is gone and the other lines are as they were.
C10_UnbindRewritesEntryInPlace ==
    ( /\ last.op = "removeInstructionBindings"
      /\ ~last.flag
      /\ last.err = "none" )
    => LET i == FirstEntryLine(PreLines, last.script_name)
           entry == EntryAt(PreLines, i)
           kept == SelectSeq(entry.bindings, LAMBDA b : b \notin last.bindings_to_remove)
       IN  /\ EntryLines(PreLines, last.script_name) # {}
           /\ last.bindings_to_remove \subseteq ToSet(entry.bindings)
           /\ IF kept = <<>>
              THEN PostLines = Without(PreLines, i)
              ELSE /\ Len(PostLines) = Len(PreLines)
                   /\ parseInstructionEntry(PostLines[i]) =
                         Some([script_name |-> last.script_name,
                               is_source_entry |-> entry.is_source_entry,
                               bindings |-> kept])

\* a sourced entry loses two of its three commands and stays sourced
C10_Witness ==
    /\ last.op = "removeInstructionBindings"
    /\ ~last.flag
    /\ last.err = "none"
    /\ last.bindings_to_remove = { <<"b">>, <<"c">> }
    /\ EntryLines(PreLines, last.script_name) # {}
    /\ EntryAt(PreLines, FirstEntryLine(PreLines, last.script_name)).is_source_entry
    /\ EntryLines(PostLines, last.script_name) # {}
    /\ EntryAt(PostLines, FirstEntryLine(PostLines, last.script_name)) =
          [script_name |-> last.script_name, is_source_entry |-> TRUE,
           bindings |-> << <<"a">> >>]

\* the entries of a script in a file, in file order
EntriesOf(lines, script_name) ==
    SelectSeq(ParsedEntries(lines), LAMBDA e : e.script_name = script_name)

\* the number of blank and comment lines a file starts with
RECURSIVE LeadingRun(_)
LeadingRun(lines) ==
    IF lines = <<>> THEN 0
    ELSE IF strip(Head(lines)) = <<>> \/ Head(strip(Head(lines))) = "#"
         THEN 1 + LeadingRun(Tail(lines))
         ELSE 0

\* a directive of the named submodule, and one whose export spec is the wildcard
IsDirectiveOf(raw, name) == IsDirective(raw) /\ DirectiveName(raw) = name
IsWildcardOf(raw, name) == IsDirectiveOf(raw, name) /\ DirectiveSpec(raw) = << <<"*">> >>

\* C11: after setSourcePolicy(s, use_source) every entry of s in the file, as
\* parseInstructionEntry reads it, has that policy and the bindings it had;
\* a second call changes nothing more; a file with no entry of s is unchanged.
C11_SetSourcePolicyRewritesEntry ==
    last.op = "setSourcePolicy" =>
        /\ EntriesOf(PostLines, last.script_name) =
              [k \in 1..Len(EntriesOf(PreLines, last.script_name)) |->
                  [EntriesOf(PreLines, last.script_name)[k]
                      EXCEPT !.is_source_entry = last.flag]]
        /\ writelines(setSourcePolicy(last.script_name, last.flag, PostLines).lines)
              = fs[RootFile]
        /\ EntryLines(PreLines, last.script_name) = {} => fs[RootFile] = last.pre

\* C12: bindToItem for a script with no entry, and exportSubmoduleBindings,
\* add one line right after the leading blank and comment lines: it is the
\* first line that is neither, and the lines that were there are unchanged
\* and in their order.
C12_NewLineFollowsPreamble ==
    ( /\ last.err = "none"
      /\ \/ last.op = "exportSubmoduleBindings"
         \/ (last.op = "bindToItem" /\ EntryLines(PreLines, last.script_name) = {}) )
    => LET k == LeadingRun(PreLines)
       IN  /\ Len(PostLines) = Len(PreLines) + 1
           /\ Without(PostLines, k + 1) = PreLines
           /\ LeadingRun(PostLines) = k

\* C13: removeAllInstructionsFromSubmodule(name) removes the wildcard
\* directives "[name] *" of the file and nothing else, selective directives
\* of name included; and right after exportSubmoduleBindings(name) on a file
\* with no wildcard directive of name it gives the file back byte for byte.
C13_UnexportRemovesWildcardOnly ==
    /\ last.op = "removeAllInstructionsFromSubmodule" =>
          PostLines = SelectSeq(PreLines, LAMBDA raw : ~IsWildcardOf(raw, last.submodule[1]))
    /\ ( /\ last.op = "exportSubmoduleBindings"
         /\ \A i \in 1..Len(PreLines) : ~IsWildcardOf(PreLines[i], last.submodule[1]) )
       => enactInstructionsList(fs, RootRepo,
              removeAllInstructionsFromSubmodule(last.submodule[1],
                                                 InstructionLines(fs, RootRepo))).fs[RootFile]
          = last.pre

\* C14: after deleteInstructionEntry(s) the file has no entry of s, however
\* many it had and whatever their markers and bindings; every other line,
\* directives and entries of other scripts included, is kept in its order.
C14_DeleteEntryRemovesEveryEntry ==
    last.op = "deleteInstructionEntry" =>
        /\ last.err = "none"
        /\ EntryLines(PostLines, last.script_name) = {}
        /\ PostLines = SelectSeq(PreLines, LAMBDA raw :
                           \A e \in ToSet(ParsedEntries(<<raw>>)) :
                               e.script_name # last.script_name)

\* two entries of the script, one sourced and one not, are both removed and
\* another script's entry stays
C14_Witness ==
    /\ last.op = "deleteInstructionEntry"
    /\ Cardinality(EntryLines(PreLines, last.script_name)) >= 2
    /\ \E e \in ToSet(EntriesOf(PreLines, last.script_name)) : e.is_source_entry
    /\ \E e \in ToSet(EntriesOf(PreLines, last.script_name)) : ~e.is_source_entry
    /\ EntryLines(PostLines, last.script_name) = {}
    /\ ParsedEntries(PostLines) # <<>>

(* ------------------------------------------------------------------ *)
(* Properties of the registry (SpecRegistry)                           *)
(* ------------------------------------------------------------------ *)

\* the paths of a disk that do not lie at or below top, with their kinds
Outside(d, top) == [q \in {p \in DOMAIN d : ~Below(p, top)} |-> d[q]]

\* C15: registerSubmodule for a name whose slot exists in the registry of
\* the source's kind fails with ItemAlreadyExistsError, runs no git command
\* and leaves the disk, that slot and every other, as it was.
C15_RegisterExistingSlotFails ==
    (last.op = "registerSubmodule" /\ last.path \in DOMAIN last.before) =>
        /\ last.err = "ItemAlreadyExistsError"
        /\ last.events = <<>>
        /\ disk = last.before

\* the slot is there without its config (an unregister that failed part-way
\* left it) and the register attempt is refused
C15_Witness ==
    /\ last.op = "registerSubmodule"
    /\ last.path \in DOMAIN last.before
    /\ last.path \o << <<"config">> >> \notin DOMAIN last.before
    /\ last.err = "ItemAlreadyExistsError"
    /\ steps = 2

\* C16: registerSubmodule with a name that does not match ^[\w\-.]+$ fails
\* with a validation error (ValueError), creates no registry directory and
\* no slot, and runs no git command.
C16_RegisterValidatesName ==
    (last.op = "registerSubmodule" /\ ~IdentifierMatch(last.item)) =>
        /\ last.err = "ValueError"
        /\ last.events = <<>>
        /\ disk = last.before

\* C17: unregisterSubmodule fails with ItemNotFoundError and changes nothing
\* when the slot is absent; after a normal return the slot is gone, a lookup
\* of the name in that registry fails with ItemNotFoundError and a register
\* of the name is not refused with ItemAlreadyExistsError; a removal that
\* failed, of an entry or of the slot directory, is raised as
\* MangoRegistryError; what lies outside the slot is never touched.
C17_UnregisterRemovesSlotOrFails ==
    last.op = "unregisterSubmodule" =>
        /\ last.path \notin DOMAIN last.before =>
              (last.err = "ItemNotFoundError" /\ disk = last.before)
        /\ last.err = "none" =>
              /\ \A q \in DOMAIN disk : ~Below(q, last.path)
              /\ gitPathFromSubmodule(disk, last.item,
                                      <<getUserRegistryPath(last.kind)>>).err
                     = "ItemNotFoundError"
              /\ registerSubmodule(disk, last.kind, Origin, last.item, TRUE).err
                     # "ItemAlreadyExistsError"
        /\ (last.path \in DOMAIN last.before
            /\ (last.env.kept # {} \/ ~last.env.rmdir_ok)) =>
              last.err = "MangoRegistryError"
        /\ Outside(disk, last.path) = Outside(last.before, last.path)

\* a registered slot, config and objects, is removed whole
C17_Witness ==
    /\ last.op = "unregisterSubmodule"
    /\ last.path \o << <<"config">> >> \in DOMAIN last.before
    /\ last.path \o << <<"objects">> >> \in DOMAIN last.before
    /\ last.err = "none"
    /\ last.path \notin DOMAIN disk

\* whether a text starts with one of the four prefixes of an origin
IsOriginForm(text) ==
    \E prefix \in {FilePrefix, HttpPrefix, HttpsPrefix, GitAtPrefix} :
        Len(prefix) <= Len(text) /\ SubSeq(text, 1, Len(prefix)) = prefix

\* the registries of the list, in order, that hold a name
Holding(d, name, registries) ==
    SelectSeq(registries, LAMBDA registry :
        (registry \o <<name, <<"config">> >>) \in DOMAIN d)

\* C19: gitPathFromSubmodule returns a text starting with file://, http://,
\* https:// or git@ unchanged; for any other text that does not match
\* ^[\w\-.]+$ it fails with a validation error (ValueError); a matching name
\* resolves to the slot of the first registry of the list that holds it and
\* fails with ItemNotFoundError when none does.
C19_LookupResolvesOriginOrName ==
    last.op = "gitPathFromSubmodule" =>
        IF IsOriginForm(last.item)
        THEN last.err = "none" /\ last.ret.url = last.item /\ last.ret.slot = None
        ELSE IF ~IdentifierMatch(last.item)
        THEN last.err = "ValueError"
        ELSE IF Holding(last.before, last.item, Registries) = <<>>
        THEN last.err = "ItemNotFoundError"
        ELSE /\ last.err = "none"
             /\ last.ret.slot =
                   Some(Head(Holding(last.before, last.item, Registries)) \o <<last.item>>)

(* ------------------------------------------------------------------ *)
(* Properties of the installation (SpecInstall)                        *)
(* ------------------------------------------------------------------ *)

\* C18: installSubmodule on a path without the private module folder fails
\* with InvalidMangoRepoError and changes nothing: no .submodules directory
\* is made, nothing is copied or cloned, no hook is run.
C18_InstallNeedsRepository ==
    (last.op = "installSubmodule"
     /\ (last.repo \o <<MangoDir>>) \notin DOMAIN last.before) =>
        /\ last.err = "InvalidMangoRepoError"
        /\ disk = last.before
        /\ last.events = <<>>

\* the directory is there, it is no repository, and the call is refused
C18_Witness ==
    /\ last.op = "installSubmodule"
    /\ last.repo \in DOMAIN last.before
    /\ (last.repo \o <<MangoDir>>) \notin DOMAIN last.before
    /\ last.err = "InvalidMangoRepoError"
    /\ disk = last.before

\* the hook runs of the last call
HookRuns == SelectSeq(last.events, LAMBDA e : e.call = "run")

\* C20: one installSubmodule runs the install hook at most once, and only
\* after its copy or clone succeeded and with the hook file present in the
\* installed submodule's private module folder; it runs no hook when the
\* copy or clone failed; a hook that fails leaves the installed submodule
\* where it is.
C20_HookRunsOnceAfterInstall ==
    last.op = "installSubmodule" =>
        /\ Len(HookRuns) <= 1
        /\ HookRuns # <<>> =>
              /\ Len(last.events) = 2
              /\ last.events[1].call \in {"copytree", "git clone"}
              /\ last.events[1].ok
              /\ last.events[2] = HookRuns[1]
              /\ HookRuns[1].target = last.events[1].target \o <<MangoDir, OnInstall>>
              /\ HookRuns[1].target \in DOMAIN disk
        /\ (last.events # <<>> /\ ~last.events[1].ok) => HookRuns = <<>>
        /\ (HookRuns # <<>> /\ ~HookRuns[1].ok) =>
              /\ isdir(disk, last.events[1].target)
              /\ (last.events[1].target \o <<MangoDir>>) \in DOMAIN disk
              /\ \A q \in DOMAIN last.before : q \in DOMAIN disk

\* a hook that exits with a failure status after a completed copy: the
\* call returns normally and the submodule stays installed
C20_Witness ==
    /\ last.op = "installSubmodule"
    /\ HookRuns # <<>>
    /\ ~HookRuns[1].ok
    /\ last.env.run = "exit1"
    /\ last.err = "none"
    /\ last.events[1].target \in DOMAIN disk

(* ------------------------------------------------------------------ *)
(* Properties of the virtual paths (SpecLookup), of the order (SpecResolve) *)
(* ------------------------------------------------------------------ *)

\* the repository the resolver reads for a chain: the root for the empty
\* chain, and .mango/.submodules/<name> below the repository of the chain
\* without its last name
RECURSIVE ChainRepo(_)
ChainRepo(chain) ==
    IF chain = <<>> THEN RootRepo
    ELSE ChainRepo(SubSeq(chain, 1, Len(chain) - 1))
         \o <<MangoDir, SubmodulesDir, chain[Len(chain)]>>

\* C21: mapSubmodulePath of a chain of submodule names is the root for the
\* empty chain and, for c + [n], the path of c followed by
\* .mango/.submodules/n, which is the repository getRegisteredItems reads
\* for the chain.
C21_VirtualPathFollowsChain ==
    last.op = "mapSubmodulePath" => last.path = ChainRepo(last.item)

\* the lists of a list, one after the other
RECURSIVE Flatten(_)
Flatten(lists) == IF lists = <<>> THEN <<>> ELSE Head(lists) \o Flatten(Tail(lists))

\* the table of a repository whose bindings file holds one given line only
LineTable(repo, chain, raw) ==
    getRegisteredItems([fs EXCEPT ![instructions_path(repo)] = raw], repo, chain).scripts

\* the tables of the lines of a repository's bindings file, in file order
LineTables(repo, chain) ==
    [i \in 1..Len(readlines(fs[instructions_path(repo)])) |->
        LineTable(repo, chain, readlines(fs[instructions_path(repo)])[i])]

\* C22: the table getRegisteredItems returns is, line by line in file order,
\* what each line yields: the entries of line i come before those of any
\* later line, and what a directive yields, the submodule's table in the
\* submodule's own file order, stands unbroken at the directive's place; the
\* same holds in the files of the submodules.
C22_TableFollowsLineOrder ==
    (last.op = "getRegisteredItems" /\ last.err = "none") =>
        /\ last.ret = Flatten(LineTables(RootRepo, <<>>))
        /\ \A i \in 1..Len(PreLines) :
              (IsDirective(PreLines[i]) /\ DirectiveSpec(PreLines[i]) = << <<"*">> >>) =>
                  LET name == DirectiveName(PreLines[i])
                  IN  LineTable(RootRepo, <<>>, PreLines[i])
                          = Flatten(LineTables(submodule_repo_path(RootRepo, name), <<name>>))

\* "[l] *" above the root's own entry s, with three entries in l: the table
\* is l's three entries in l's order, then s
C22_Witness ==
    /\ last.op = "getRegisteredItems"
    /\ last.err = "none"
    /\ last.pre = <<"[", "l", "]", " ", "*", NL, "s", ":", " ", "a", " ", "b", NL>>
    /\ last.ret = << ScriptInfo(<< <<"l">> >>, <<"t">>, FALSE, << <<"a">>, <<"b">> >>),
                     ScriptInfo(<< <<"l">> >>, <<"u">>, TRUE, << <<"b">> >>),
                     ScriptInfo(<< <<"l">> >>, <<"t">>, FALSE, << <<"c">> >>),
                     ScriptInfo(<<>>, <<"s">>, FALSE, << <<"a">>, <<"b">> >>) >>

(* ------------------------------------------------------------------ *)
(* Precedence of the root's entries (Spec)                             *)
(* ------------------------------------------------------------------ *)

\* the positions of a table whose entry is bound to command c
BoundAt(scripts, c) == {k \in 1..Len(scripts) : c \in ToSet(scripts[k].bindings)}

\* C23: in the table of the root, a command bound both by an entry of the
\* root's own file and by an entry that comes from a submodule has the
\* root's entry first, wherever the directive stands in the file, also after
\* bindToItem and exportSubmoduleBindings put their lines at the top.
C23_RootEntryComesFirst ==
    LET table == getRegisteredItems(fs, RootRepo, <<>>)
    IN  table.err = "none" =>
            \A c \in {<<"a">>, <<"b">>, <<"c">>} :
                ( /\ \E k \in BoundAt(table.scripts, c) :
                        table.scripts[k].virtual_submodule_path = <<>>
                  /\ \E k \in BoundAt(table.scripts, c) :
                        table.scripts[k].virtual_submodule_path # <<>> )
                => \E k \in BoundAt(table.scripts, c) :
                      /\ table.scripts[k].virtual_submodule_path = <<>>
                      /\ \A j \in BoundAt(table.scripts, c) : k <= j

(* ------------------------------------------------------------------ *)
(* Properties of the list of exported submodules (SpecLookup)          *)
(* ------------------------------------------------------------------ *)

\* the names of the directives of a file whose export spec is the lone
\* wildcard, in file order
RECURSIVE WildcardNames(_)
WildcardNames(lines) ==
    IF lines = <<>> THEN <<>>
    ELSE (IF IsDirective(Head(lines)) /\ DirectiveSpec(Head(lines)) = << <<"*">> >>
          THEN <<DirectiveName(Head(lines))>> ELSE <<>>)
         \o WildcardNames(Tail(lines))

\* C24: getExportedSubmodules returns, in file order, the names of the
\* directives whose export spec is the lone wildcard, the ones
\* getRegisteredItems takes whole, and no other name; a directive line
\* without its closing bracket is skipped and the call does not fail.
C24_ExportedAreTheWildcards ==
    last.op = "getExportedSubmodules" =>
        /\ last.err = "none"
        /\ last.ret = WildcardNames(PreLines)

(* ------------------------------------------------------------------ *)
(* Frame of the mutations (Spec)                                       *)
(* ------------------------------------------------------------------ *)

\* the lines a call is aimed at: the entries of its script, the directives
\* of its submodule, or none for a call that adds a line
TargetLines ==
    IF last.op \in {"setSourcePolicy", "deleteInstructionEntry"}
    THEN EntryLines(PreLines, last.script_name)
    ELSE IF last.op = "removeInstructionBindings"
    THEN IF EntryLines(PreLines, last.script_name) = {} THEN {}
         ELSE {FirstEntryLine(PreLines, last.script_name)}
    ELSE IF last.op = "removeAllInstructionsFromSubmodule"
    THEN {i \in 1..Len(PreLines) : IsDirectiveOf(PreLines[i], last.submodule[1])}
    ELSE {}

\* the lines of a list at the positions outside a set, in order
RECURSIVE Except(_, _, _)
Except(lines, positions, i) ==
    IF i > Len(lines) THEN <<>>
    ELSE (IF i \in positions THEN <<>> ELSE <<lines[i]>>) \o Except(lines, positions, i + 1)

\* C25: a mutation that returns leaves every line it is not aimed at as it
\* was, byte for byte and in the same order: a call that adds a line adds
\* one line among the old ones, a call that rewrites keeps the other lines
\* at their places, a call that removes keeps the others in order; and a
\* call that finds nothing to aim at leaves the file byte for byte.
C25_MutationsKeepOtherLines ==
    (last.op \in {"setSourcePolicy", "bindToItem", "exportSubmoduleBindings",
                  "removeInstructionBindings", "deleteInstructionEntry",
                  "removeAllInstructionsFromSubmodule"}
     /\ last.err = "none") =>
        /\ last.op \in {"bindToItem", "exportSubmoduleBindings"} =>
              \E k \in 1..Len(PostLines) : Without(PostLines, k) = PreLines
        /\ last.op \notin {"bindToItem", "exportSubmoduleBindings"} =>
              \/ /\ Len(PostLines) = Len(PreLines)
                 /\ \A i \in 1..Len(PreLines) :
                       i \notin TargetLines => PostLines[i] = PreLines[i]
              \/ \E gone \in SUBSET TargetLines :
                    /\ gone # {}
                    /\ PostLines = Except(PreLines, gone, 1)
        /\ (last.op \notin {"bindToItem", "exportSubmoduleBindings"} /\ TargetLines = {}) =>
              fs[RootFile] = last.pre

(* ------------------------------------------------------------------ *)
(* Mutations of one file by two processes (SpecConcurrent)             *)
(* ------------------------------------------------------------------ *)

\* the line a call adds to the file
EditText(call) ==
    IF call.op = "bindToItem"
    THEN call.script_name \o <<":", " ">> \o join(<<" ">>, call.bindings) \o <<NL>>
    ELSE <<"[">> \o call.submodule[1] \o <<"]", " ", "*", NL>>

\* part stands somewhere in text
Occurs(text, part) ==
    \E i \in 1..(Len(text) - Len(part) + 1) : SubSeq(text, i, i + Len(part) - 1) = part

AllDone == \A p \in Procs : procs[p].pc = "done"

\* C26: the wrapper reads the whole file, transforms and writes the whole
\* file with no lock.  When both processes have finished: if the process
\* that wrote last had read only after the other had written (one call after
\* the other), the lines of both calls are in the file; if it had read
\* before the other wrote, the other's line, new to the file, is not in it.
C26_UnlockedRewriteLosesUpdate ==
    AllDone =>
        \A w \in Procs, o \in Procs :
            (w # o /\ procs[w].wrote_at > procs[o].wrote_at) =>
                /\ procs[w].read_at > procs[o].wrote_at =>
                      /\ Occurs(fs[RootFile], EditText(procs[w].call))
                      /\ Occurs(fs[RootFile], EditText(procs[o].call))
                /\ ( /\ procs[w].read_at < procs[o].wrote_at
                     /\ ~Occurs(last.pre, EditText(procs[o].call)) ) =>
                      ~Occurs(fs[RootFile], EditText(procs[o].call))

\* the second process read the file as it was, the first wrote, the second
\* wrote: the second call's line is in the file and the first's is missing
C26_Witness ==
    /\ AllDone
    /\ procs[2].lines = readlines(last.pre)
    /\ last.pre # <<>>
    /\ procs[2].read_at < procs[1].wrote_at
    /\ procs[1].wrote_at < procs[2].wrote_at
    /\ Occurs(fs[RootFile], EditText(procs[2].call))
    /\ ~Occurs(fs[RootFile], EditText(procs[1].call))

(* ------------------------------------------------------------------ *)
(* Where an installation writes (SpecInstall)                          *)
(* ------------------------------------------------------------------ *)

\* the name the last installSubmodule call was to install under, and what
\* follows the last "/" of an origin without its final "/" and ".git"
OriginName(git) ==
    LET bare == IF git # <<>> /\ git[Len(git)] = "/" THEN SubSeq(git, 1, Len(git) - 1)
                ELSE git
        cut == IF Len(bare) >= 4 /\ SubSeq(bare, Len(bare) - 3, Len(bare)) = DotGit
               THEN SubSeq(bare, 1, Len(bare) - 4) ELSE bare
        slashes == {i \in 1..Len(cut) : cut[i] = "/"}
        from == IF slashes = {} THEN 1
                ELSE 1 + CHOOSE i \in slashes : \A j \in slashes : j <= i
    IN  SubSeq(cut, from, Len(cut))
InstallName == IF last.rename # None THEN last.rename[1] ELSE OriginName(last.item)

\* the paths of the disk the last call made
Created == DOMAIN disk \ DOMAIN last.before

\* C27: installSubmodule on a repository writes only at a direct child of
\* <repo>/.mango/.submodules: the name it installs under matches ^[\w\-.]+$
\* and is not "." or "..", a call with another name fails with nothing
\* copied or cloned, and a submodule already installed under the name is
\* left as it was.
C27_InstallStaysInSubmodules ==
    (last.op = "installSubmodule" /\ (last.repo \o <<MangoDir>>) \in DOMAIN last.before) =>
        LET submodules_dir == last.repo \o <<MangoDir, SubmodulesDir>>
            dest == submodules_dir \o <<InstallName>>
            fit == /\ IdentifierMatch(InstallName)
                   /\ InstallName \notin {<<".">>, <<".", ".">>}
        IN  /\ ~fit => (last.err # "none" /\ last.events = <<>>)
            /\ \A q \in Created : q = submodules_dir \/ (fit /\ Below(q, dest))
            /\ (dest \o <<MangoDir>>) \in DOMAIN last.before =>
                  (last.err # "none" /\ disk = last.before)

(* ------------------------------------------------------------------ *)
(* Agreement of the registry's existence checks (SpecRegistry)         *)
(* ------------------------------------------------------------------ *)

\* C28: after any calls of registerSubmodule, failed clones included, and
\* of unregisterSubmodule, the names registerSubmodule refuses with
\* ItemAlreadyExistsError are the names listRegisteredSubmodules reports for
\* the user registry and the names gitPathFromSubmodule resolves in it: no
\* slot blocks a registration while enumeration and lookup do not see it.
C28_ExistenceChecksAgree ==
    LET registry == getUserRegistryPath("submodule")
        listed == {info.name : info \in listRegisteredSubmodules(disk, registry)}
    IN  \A name \in {n \in ItemNames : IdentifierMatch(n)} :
            /\ (registerSubmodule(disk, "submodule", Origin, name, TRUE).err
                    = "ItemAlreadyExistsError")
               <=> name \in listed
            /\ name \in listed
               <=> gitPathFromSubmodule(disk, name, <<registry>>).err = "none"

====
